---- MODULE Spec2Model ----
(***************************************************************************)
(* Tree Node / TreeModel / TreeView of the tree views.                     *)
(*                                                                         *)
(* Execution model: one thread and an event loop.  An operation in flight  *)
(* is a record in `ops` whose pc names the await it is suspended at.  A    *)
(* recursive helper (height, touch, collectVisibleNodes, findOpenNodes,    *)
(* reloadSubtree, markAsDefunct, findNodeOffset) runs as one step over the *)
(* part of the tree whose children promises are resolved and stays         *)
(* suspended while a children promise it awaits is pending.  The           *)
(* continuations that are ready run in any order; an event from outside    *)
(* (a key press, a notification or an answer of the server, an answer of   *)
(* the display surface) is taken when none is ready.                       *)
(***************************************************************************)
EXTENDS Integers, Sequences, FiniteSets, TLC

\* ---------------------------------------------------------------- bounds
MaxCalls == 3      \* operations started in one behaviour
MaxTime == 1       \* largest value Date.now() returns
MaxFail == 1       \* display-surface calls that may fail
MaxLine == 3       \* largest cursor line of the display surface
MaxLoadFail == 1   \* loads of children that may fail
MaxMessages == 3   \* treeViewDidChange notifications received
MaxNodes == 2      \* nodes of one treeViewDidChange notification

\* ------------------------------------------------------------ data source
ROOT == "root"     \* stands for the absent nodeUri of the synthetic root

\* What loadNodeChildren answers: the server's tree, in the versions the
\* server moves between.  kids[u] are the child identities of u, exp the
\* identities whose descriptor carries a collapseState, icon the
\* identities whose icon maps to a highlight class.
Versions ==
  << [kids |-> [u \in {ROOT, "A", "B", "C"} |->
                  CASE u = ROOT -> <<"A", "B">>
                    [] u = "A" -> <<"C">>
                    [] OTHER -> << >>],
      exp |-> {"A", "C"}, icon |-> {"A", "C"}],
     [kids |-> [u \in {ROOT, "A", "B", "C"} |->
                  CASE u = ROOT -> <<"B">>
                    [] OTHER -> << >>],
      exp |-> {}, icon |-> {"B"}],
     [kids |-> [u \in {ROOT, "A", "B", "C"} |-> << >>],
      exp |-> {}, icon |-> {}] >>

\* The identities the server's notifications name; ROOT for none.
PushUris == {ROOT, "A", "C"}

VARIABLES
  nodes,     \* the Node objects created so far; nodes[1] is TreeModel.rootNode
  data,      \* index of the server's current version
  now,       \* last value returned by Date.now()
  ops,       \* operations in flight
  marking,   \* nodes whose markAsDefunct awaits their children
  emitted,   \* every TreeModelUpdate fired on the emitter, in order
  returned,  \* the most recent call that returned, with its result
  calls,     \* number of operations started
  notes,     \* sendTreeNodeVisibilityNotification calls made
  eventQueue,       \* TreeView.eventQueue: one entry per chained callback
  buffer,           \* the lines of the tree buffer
  lineToSignId,     \* TreeView.lineToSignId
  highlightPlaceId, \* TreeView.highlightPlaceId
  signs,            \* the sign ids placed in the buffer
  cursor,           \* cursor line of the window showing the buffer
  modifiable,       \* buffer option 'modifiable'
  readonly,         \* buffer option 'readonly'
  firstUpdate,      \* TreeView.firstUpdate
  fails,            \* display-surface calls that have failed
  viewUpdaters,     \* TreeViewFeature.viewUpdaters: viewId -> emitter
  treeModels,       \* TreeModelManager.treeModels: viewId -> TreeModel
  providers,        \* the providers handed to registerTreeViewsProvider
  updatedNodes,     \* every node fired on an emitter of viewUpdaters, in order
  received,         \* every node of the treeViewDidChange notifications received
  messages          \* number of treeViewDidChange notifications received

treeVars == <<nodes, data, now, ops, marking, returned, calls, notes>>

viewVars == <<buffer, lineToSignId, highlightPlaceId, signs, cursor,
              modifiable, readonly, firstUpdate, fails>>

featureVars == <<viewUpdaters, treeModels, providers, updatedNodes, received,
                 messages>>

vars == <<treeVars, emitted, eventQueue, viewVars, featureVars>>

Root == 1
NodeIds == 1..Len(nodes)

\* Date.now(): the clock read again is the same millisecond or a later one.
DateNow == {t \in now..(now + 1) : t <= MaxTime}

\* ------------------------------------------------------------------- Node
\* new Node(viewNode, level, provider, emitter)
NewNode(u, lvl, e, ic, t) ==
  [uri |-> u, level |-> lvl, exp |-> e, icon |-> ic, expanded |-> FALSE,
   st |-> "undef", kids |-> << >>, lastTouch |-> t, defunct |-> FALSE]

expandable(ns, n) == ns[n].exp

isExpanded(ns, n) == ns[n].expanded

makeView(ns, n) ==
  [uri |-> ns[n].uri, level |-> ns[n].level, icon |-> ns[n].icon,
   expandable |-> expandable(ns, n), expanded |-> isExpanded(ns, n),
   node |-> n]

\* getChildren() asking the provider on every call.
getChildrenUncached(ns, n) == [ns EXCEPT ![n].st = "pending", ![n].kids = << >>]

\* getChildren() asking the provider again when the cached promise is
\* rejected.
getChildrenRetry(ns, n) ==
  IF ns[n].st \in {"undef", "failed"} THEN [ns EXCEPT ![n].st = "pending"]
  ELSE ns

\* getChildren(): the first request starts the load and caches its promise.
getChildren(ns, n) ==
  IF ns[n].st = "undef" THEN [ns EXCEPT ![n].st = "pending"] ELSE ns

\* A helper walking n's subtree through expanded nodes is not suspended.
RECURSIVE Settled(_, _)
Settled(ns, n) ==
  \/ ~isExpanded(ns, n)
  \/ /\ ns[n].st = "ok"
     /\ \A i \in 1..Len(ns[n].kids) : Settled(ns, ns[n].kids[i])

RECURSIVE height(_, _), heights(_, _, _)
heights(ns, kids, i) ==
  IF i > Len(kids) THEN 1 ELSE height(ns, kids[i]) + heights(ns, kids, i + 1)

height(ns, n) ==
  IF isExpanded(ns, n) THEN heights(ns, ns[n].kids, 1) ELSE 1

RECURSIVE collectInternal(_, _, _), collectChildren(_, _, _, _)
collectChildren(ns, acc, kids, i) ==
  IF i > Len(kids) THEN acc
  ELSE collectChildren(ns, collectInternal(ns, acc, kids[i]), kids, i + 1)

collectInternal(ns, acc, n) ==
  LET newAcc == Append(acc, makeView(ns, n))
  IN IF isExpanded(ns, n) THEN collectChildren(ns, newAcc, ns[n].kids, 1)
     ELSE newAcc

collectVisibleNodes(ns, n) == collectInternal(ns, << >>, n)

RECURSIVE findOpenNodes(_, _, _, _), findOpenChildren(_, _, _, _, _)
findOpenChildren(ns, acc, curPath, kids, i) ==
  IF i > Len(kids) THEN acc
  ELSE findOpenChildren(ns,
         findOpenNodes(ns, acc, Append(curPath, ns[kids[i]].uri), kids[i]),
         curPath, kids, i + 1)

findOpenNodes(ns, acc, curPath, n) ==
  IF isExpanded(ns, n)
  THEN findOpenChildren(ns, Append(acc, curPath), curPath, ns[n].kids, 1)
  ELSE acc

\* touch(), from the point where the nodes of `front` have had their
\* stamp set and await their children: every child of a resolved node is
\* stamped, and awaits its own children when it is expanded.
RECURSIVE touchChildren(_, _, _, _)
touchChildren(ns, kids, i, t) ==
  IF i > Len(kids) THEN [ns |-> ns, front |-> {}]
  ELSE LET c == kids[i]
           ns1 == [ns EXCEPT ![c].lastTouch = t]
           ns2 == IF isExpanded(ns1, c) THEN getChildren(ns1, c) ELSE ns1
           r == touchChildren(ns2, kids, i + 1, t)
       IN [ns |-> r.ns,
           front |-> r.front \cup (IF isExpanded(ns1, c) THEN {c} ELSE {})]

RECURSIVE touch(_, _, _)
touch(ns, front, t) ==
  IF \E n \in front : ns[n].st = "ok"
  THEN LET n == CHOOSE m \in front : ns[m].st = "ok"
           r == touchChildren(ns, ns[n].kids, 1, t)
       IN touch(r.ns, (front \ {n}) \cup r.front, t)
  ELSE [ns |-> ns, front |-> front]

\* markAsDefunct() of every node of kids: the flag is set at once, the
\* children of an expanded node follow when its children are resolved.
RECURSIVE markChildren(_, _, _)
markChildren(ns, kids, i) ==
  IF i > Len(kids) THEN [ns |-> ns, front |-> {}]
  ELSE LET c == kids[i]
           ns1 == [ns EXCEPT ![c].defunct = TRUE]
           ns2 == IF isExpanded(ns1, c) THEN getChildren(ns1, c) ELSE ns1
           r == markChildren(ns2, kids, i + 1)
       IN [ns |-> r.ns,
           front |-> r.front \cup (IF isExpanded(ns1, c) THEN {c} ELSE {})]

RECURSIVE markAsDefunct(_, _)
markAsDefunct(ns, front) ==
  IF \E n \in front : ns[n].st = "ok"
  THEN LET n == CHOOSE m \in front : ns[m].st = "ok"
           r == markChildren(ns, ns[n].kids, 1)
       IN markAsDefunct(r.ns, (front \ {n}) \cup r.front)
  ELSE [ns |-> ns, front |-> front]

\* The open paths grouped without looking at their first identity.
RECURSIVE openNodesOfAny(_, _, _)
openNodesOfAny(open, u, i) ==
  IF i > Len(open) THEN << >>
  ELSE IF Len(open[i]) # 0
       THEN <<Tail(open[i])>> \o openNodesOfAny(open, u, i + 1)
       ELSE openNodesOfAny(open, u, i + 1)

\* groupBy(openNodes.filter(node => node.length != 0), arr => arr[0]).get(u)
RECURSIVE openNodesOf(_, _, _)
openNodesOf(open, u, i) ==
  IF i > Len(open) THEN << >>
  ELSE IF Len(open[i]) # 0 /\ open[i][1] = u
       THEN <<Tail(open[i])>> \o openNodesOf(open, u, i + 1)
       ELSE openNodesOf(open, u, i + 1)

\* reloadSubtree(node, openNodes), from the point where the children of
\* node are resolved: a child with open paths is expanded and reloaded.
RECURSIVE reloadChildren(_, _, _, _)
reloadChildren(ns, open, kids, i) ==
  IF i > Len(kids) THEN [ns |-> ns, front |-> {}]
  ELSE LET c == kids[i]
           nextOpenNodes == openNodesOf(open, ns[c].uri, 1)
           ns1 == IF nextOpenNodes = << >> THEN ns
                  ELSE getChildren([ns EXCEPT ![c].expanded = TRUE], c)
           r == reloadChildren(ns1, open, kids, i + 1)
       IN [ns |-> r.ns,
           front |-> r.front \cup
                     (IF nextOpenNodes = << >> THEN {}
                      ELSE {[node |-> c, open |-> nextOpenNodes]})]

RECURSIVE reloadSubtree(_, _)
reloadSubtree(ns, front) ==
  IF \E f \in front : ns[f.node].st = "ok"
  THEN LET f == CHOOSE g \in front : ns[g.node].st = "ok"
           r == reloadChildren(ns, f.open, ns[f.node].kids, 1)
       IN reloadSubtree(r.ns, (front \ {f}) \cup r.front)
  ELSE [ns |-> ns, front |-> front]

\* ------------------------------------------------------------- operations
NoReturn == [call |-> 0, kind |-> "none", node |-> 0, result |-> FALSE,
             wasDefunct |-> FALSE, raced |-> {}, stale |-> FALSE,
             chain |-> << >>, wasOpen |-> {}, touched |-> FALSE,
             rejected |-> FALSE]

Op(c, k, n, p) ==
  [call |-> c, kind |-> k, node |-> n, pc |-> p, curState |-> 0, height |-> 0,
   front |-> {}, reload |-> {}, openNodes |-> << >>, 
   viewNode |-> [set |-> FALSE, exp |-> FALSE, icon |-> FALSE],
   raced |-> {}, again |-> FALSE, h0 |-> 0, uri |-> ROOT, line |-> 0,
   caller |-> "none", parents |-> << >>, chain |-> << >>, wasOpen |-> {},
   touched |-> FALSE]

\* A refreshSubtree that was invoked while op was in flight on the same
\* node has completed (history only).
Stale(op) ==
  \E i \in 1..Len(emitted) :
    emitted[i].kind = "refresh" /\ emitted[i].call \in op.raced

\* A TreeModelUpdate {root, length, payload, focusEvent}; the other fields
\* are history: the operation that fired it, whether its anchor was retired
\* then, whether the anchor was expanded when the operation was called,
\* the height of the anchor before and after the operation, and whether
\* another operation set the stamp of the anchor while it was in flight.
Update(v, len, pl, focus, op, ns) ==
  [root |-> v, length |-> len, payload |-> pl, focusEvent |-> focus,
   call |-> op.call, kind |-> op.kind, raced |-> op.raced, stale |-> Stale(op),
   retired |-> ns[op.node].defunct, again |-> op.again,
   h0 |-> op.h0, h1 |-> height(ns, op.node), touched |-> op.touched]

Return(op, res) ==
  [call |-> op.call, kind |-> op.kind, node |-> op.node, result |-> res,
   wasDefunct |-> FALSE, raced |-> op.raced, stale |-> Stale(op),
   chain |-> op.chain, wasOpen |-> op.wasOpen, touched |-> op.touched,
   rejected |-> FALSE]

\* The operations in flight once expand() has returned res for op: a call
\* made by revealDocumentInternal goes on there.
Resume(op, res) ==
  IF op.caller = "none" THEN ops \ {op}
  ELSE (ops \ {op}) \cup
       {[op EXCEPT !.kind = "reveal",
                   !.pc = IF res THEN "revealChildren" ELSE "revealReturn"]}

\* --------------------------------------------------------------- TreeView
\* makeRows(nodes): the text of a row is its indentation, its open/closed
\* marker (blank for a leaf) and its label.
makeRows(views) ==
  [i \in 1..Len(views) |->
     [indent |-> views[i].level - 1,
      icon |-> IF views[i].expandable
               THEN (IF views[i].expanded THEN "open" ELSE "closed")
               ELSE "leaf",
      label |-> views[i].uri]]

\* ev0.payload[1] of a payload with a single element
NoView == [uri |-> "undefined", level |-> 0, icon |-> FALSE,
           expandable |-> FALSE, expanded |-> FALSE, node |-> 0]

\* handleModelUpdates(ev0), its synchronous part: the root is hidden, the
\* update is chained on eventQueue.
handleModelUpdates(ev0) ==
  LET isRoot == ev0.root.uri = ROOT
      ev == IF isRoot
            THEN [root |-> IF Len(ev0.payload) >= 2 THEN ev0.payload[2] ELSE NoView,
                  length |-> ev0.length - 1,
                  payload |-> IF Len(ev0.payload) >= 1 THEN Tail(ev0.payload)
                              ELSE << >>,
                  focusEvent |-> ev0.focusEvent]
            ELSE [root |-> ev0.root, length |-> ev0.length,
                  payload |-> ev0.payload, focusEvent |-> ev0.focusEvent]
  IN [ev |-> ev, st |-> "queued", pc |-> "offset", nan |-> FALSE, offset |-> 0,
      curLine |-> 0, err |-> FALSE, made |-> {}]

\* this.emitter.fire(update), with the TreeView listening
fire(update) ==
  /\ emitted' = Append(emitted, update)
  /\ eventQueue' = Append(eventQueue, handleModelUpdates(update))

\* The callback started without waiting for the entry before it.
eventQueueUnchained(q, k) == TRUE

\* eventQueue.then(callback): the callback of entry k runs once the promise
\* of entry k - 1 is fulfilled.
eventQueueThen(q, k) == IF k = 1 THEN TRUE ELSE q[k - 1].st = "done"

\* findNodeOffset(nodeView): acc is [row count, found]; blocked marks a walk
\* still awaiting children.
RECURSIVE findNodeOffsetInternal(_, _, _, _), findNodeOffsetChildren(_, _, _, _, _)
findNodeOffsetChildren(ns, acc, kids, i, nodeView) ==
  IF i > Len(kids) THEN acc
  ELSE findNodeOffsetChildren(ns,
         findNodeOffsetInternal(ns, acc, kids[i], nodeView), kids, i + 1, nodeView)

\* The walk counting the resolved children of collapsed nodes too.
findNodeOffsetCached(ns, acc, n, nodeView) ==
  IF acc.blocked THEN acc
  ELSE IF ns[n].uri = nodeView.uri \/ acc.found THEN [acc EXCEPT !.found = TRUE]
  ELSE IF ns[n].st = "ok"
       THEN findNodeOffsetChildren(ns, [acc EXCEPT !.n = @ + 1],
                                   ns[n].kids, 1, nodeView)
       ELSE IF isExpanded(ns, n) THEN [acc EXCEPT !.blocked = TRUE]
            ELSE [acc EXCEPT !.n = @ + 1]

findNodeOffsetInternal(ns, acc, n, nodeView) ==
  IF acc.blocked THEN acc
  ELSE IF ns[n].uri = nodeView.uri \/ acc.found THEN [acc EXCEPT !.found = TRUE]
  ELSE IF isExpanded(ns, n)
       THEN IF ns[n].st = "ok"
            THEN findNodeOffsetChildren(ns, [acc EXCEPT !.n = @ + 1],
                                        ns[n].kids, 1, nodeView)
            ELSE [acc EXCEPT !.blocked = TRUE]
       ELSE [acc EXCEPT !.n = @ + 1]

findNodeOffset(ns, nodeView) ==
  findNodeOffsetInternal(ns, [n |-> 0, found |-> FALSE, blocked |-> FALSE],
                         Root, nodeView)

Min(a, b) == IF a < b THEN a ELSE b

\* buffer.remove(from, to): lines [from, to) leave the buffer
bufferRemove(buf, from, to) ==
  LET f == Min(from, Len(buf))
      e == Min(to, Len(buf))
  IN IF f >= e THEN buf ELSE SubSeq(buf, 1, f) \o SubSeq(buf, e + 1, Len(buf))

\* The number of lines the display counts in buf: an empty buffer has one.
LineCount(buf) == IF Len(buf) = 0 THEN 1 ELSE Len(buf)

\* buffer.insert(lines, offset)
bufferInsert(buf, lines, offset) ==
  LET f == Min(offset, Len(buf))
  IN SubSeq(buf, 1, f) \o lines \o SubSeq(buf, f + 1, Len(buf))

\* The key NaN of lineToSignId.
NaNLine == -1

\* removeRows(from, to), its loop: the ids to unplace and lineToSignId after
\* the deletions.
RECURSIVE removeRowsLoop(_, _, _, _)
removeRowsLoop(map, unplaceList, i, to) ==
  IF ~(i < to) THEN [map |-> map, unplaceList |-> unplaceList]
  ELSE IF (i + 1) \in DOMAIN map
       THEN removeRowsLoop([l \in DOMAIN map \ {i} |-> map[l]],
                           unplaceList \cup {map[i + 1]}, i + 1, to)
       ELSE removeRowsLoop(map, unplaceList, i + 1, to)

\* insertRows(offset, nodes), its map over the nodes: a place id per node
\* whose icon has a highlight.
RECURSIVE insertRowsLoop(_, _, _, _, _, _)
insertRowsLoop(map, placeId, placed, views, idx, line0) ==
  IF idx > Len(views) THEN [map |-> map, placeId |-> placeId, placed |-> placed]
  ELSE IF views[idx].icon
       THEN LET line == IF line0 = NaNLine THEN NaNLine ELSE line0 + (idx - 1)
            IN insertRowsLoop([l \in DOMAIN map \cup {line} |->
                                 IF l = line THEN placeId ELSE map[l]],
                              placeId + 1, placed \cup {placeId}, views,
                              idx + 1, line0)
       ELSE insertRowsLoop(map, placeId, placed, views, idx + 1, line0)

\* The nodes on which touch(), called on the children of the resolved nodes
\* of front, assigns lastTouch.
TouchedNodes(ns, front) ==
  {m \in 1..Len(ns) : touch(ns, front, -1).ns[m].lastTouch = -1}

\* History: the operations of os that have read their stamp and whose node
\* is one of S, the nodes another operation assigns lastTouch on.
NoteTouch(os, S) ==
  {IF o.kind \in {"expand", "collapse"} /\ o.node \in S
      /\ o.pc \in {"touch", "children", "collect", "height"}
   THEN [o EXCEPT !.touched = TRUE] ELSE o : o \in os}

\* The load of n's children answers: one new Node per descriptor.
LoadResolve(n) ==
  /\ nodes[n].st = "pending"
  /\ LET us == Versions[data].kids[nodes[n].uri]
         base == Len(nodes)
         fresh == [i \in 1..Len(us) |->
                     NewNode(us[i], nodes[n].level + 1,
                             us[i] \in Versions[data].exp,
                             us[i] \in Versions[data].icon, now)]
     IN nodes' = [nodes EXCEPT ![n].st = "ok",
                               ![n].kids = [i \in 1..Len(us) |-> base + i]]
                 \o fresh
  /\ UNCHANGED <<data, now, ops, marking, emitted, eventQueue, returned,
                 calls, notes, viewVars, featureVars>>

\* The children of a node being retired are resolved: retire them too.
MarkStep ==
  /\ \E n \in marking : nodes[n].st = "ok"
  /\ LET r == markAsDefunct(nodes, marking)
     IN /\ nodes' = r.ns
        /\ marking' = r.front
  /\ UNCHANGED <<data, now, ops, emitted, eventQueue, returned, calls, notes,
                 viewVars, featureVars>>

\* expand() without its test of defunct.
expandUnguarded(op, n, t) ==
  /\ notes' = notes + 1
  /\ nodes' = getChildren([nodes EXCEPT ![n].expanded = TRUE,
                                        ![n].lastTouch = t], n)
  /\ now' = t
  /\ ops' = (ops \ {op}) \cup
       {[op EXCEPT !.kind = "expand", !.node = n, !.pc = "touch",
                   !.curState = t, !.front = {n},
                   !.again = isExpanded(nodes, n),
                   !.h0 = IF Settled(nodes, n) THEN height(nodes, n) ELSE 0]}
  /\ UNCHANGED returned

\* expand(), up to its first await (inside touch()).
expand(op, n, t) ==
  IF nodes[n].defunct
  THEN /\ returned' = [Return(op, FALSE) EXCEPT !.kind = "expand", !.node = n,
                                               !.wasDefunct = TRUE]
       /\ ops' = Resume(op, FALSE)
       /\ UNCHANGED <<nodes, now, notes>>
  ELSE /\ notes' = notes + 1
       /\ nodes' = getChildren([nodes EXCEPT ![n].expanded = TRUE,
                                             ![n].lastTouch = t], n)
       /\ now' = t
       /\ ops' = NoteTouch(ops \ {op}, {n}) \cup
            {[op EXCEPT !.kind = "expand", !.node = n, !.pc = "touch",
                        !.curState = t, !.front = {n},
                        !.again = isExpanded(nodes, n),
                        !.h0 = IF Settled(nodes, n) THEN height(nodes, n) ELSE 0]}
       /\ UNCHANGED returned

\* collapse(), up to its first await (inside touch()).
collapse(op, n, t) ==
  IF nodes[n].defunct
  THEN /\ returned' = [Return(op, FALSE) EXCEPT !.kind = "collapse", !.node = n,
                                               !.wasDefunct = TRUE]
       /\ ops' = ops \ {op}
       /\ UNCHANGED <<nodes, now, notes>>
  ELSE /\ notes' = notes + 1
       /\ nodes' = IF isExpanded(nodes, n)
                   THEN getChildren([nodes EXCEPT ![n].lastTouch = t], n)
                   ELSE [nodes EXCEPT ![n].lastTouch = t]
       /\ now' = t
       /\ ops' = NoteTouch(ops \ {op}, {n}) \cup
            {[op EXCEPT !.kind = "collapse", !.node = n, !.pc = "touch",
                        !.curState = t,
                        !.front = IF isExpanded(nodes, n) THEN {n} ELSE {},
                        !.h0 = IF Settled(nodes, n) THEN height(nodes, n) ELSE 0]}
       /\ UNCHANGED returned

\* A caller holding Node n calls n.expand().
StartExpand(n, t) ==
  /\ calls < MaxCalls
  /\ ops = {}
  /\ calls' = calls + 1
  /\ expand(Op(calls + 1, "expand", n, "call"), n, t)
  /\ UNCHANGED <<data, marking, emitted, eventQueue, viewVars, featureVars>>

\* A caller holding Node n calls n.collapse().
StartCollapse(n, t) ==
  /\ calls < MaxCalls
  /\ ops = {}
  /\ calls' = calls + 1
  /\ collapse(Op(calls + 1, "collapse", n, "call"), n, t)
  /\ UNCHANGED <<data, marking, emitted, eventQueue, viewVars, featureVars>>

\* findNodeWithOffset(offset): 0 stands for undefined, -1 for a walk still
\* awaiting children.  `state` is the reduce accumulator {height, result}.
RECURSIVE findNodeWithOffsetInternal(_, _, _), findNodeWithOffsetChildren(_, _, _, _, _)
\* The reduce of findNodeWithOffsetInternal descending into a child whose
\* last row is the row before the one looked for.
findNodeWithOffsetStrict(ns, state, kids, i, offset) ==
  IF i > Len(kids) THEN state.result
  ELSE IF state.result # 0 THEN state.result
  ELSE IF ~Settled(ns, kids[i]) THEN -1
  ELSE LET childHeight == height(ns, kids[i])
       IN IF state.height + childHeight < offset
          THEN findNodeWithOffsetChildren(ns,
                 [height |-> state.height + childHeight, result |-> 0],
                 kids, i + 1, offset)
          ELSE findNodeWithOffsetChildren(ns,
                 [height |-> 0,
                  result |-> findNodeWithOffsetInternal(ns, kids[i],
                                                        offset - state.height)],
                 kids, i + 1, offset)

findNodeWithOffsetChildren(ns, state, kids, i, offset) ==
  IF i > Len(kids) THEN state.result
  ELSE IF state.result # 0 THEN state.result
  ELSE IF ~Settled(ns, kids[i]) THEN -1
  ELSE LET childHeight == height(ns, kids[i])
       IN IF state.height + childHeight <= offset
          THEN findNodeWithOffsetChildren(ns,
                 [height |-> state.height + childHeight, result |-> 0],
                 kids, i + 1, offset)
          ELSE findNodeWithOffsetChildren(ns,
                 [height |-> 0,
                  result |-> findNodeWithOffsetInternal(ns, kids[i],
                                                        offset - state.height)],
                 kids, i + 1, offset)

findNodeWithOffsetInternal(ns, n, offset) ==
  IF offset = 0 THEN n
  ELSE IF ns[n].st # "ok" THEN -1
  ELSE findNodeWithOffsetChildren(ns, [height |-> 1, result |-> 0],
                                  ns[n].kids, 1, offset)

findNodeWithOffset(ns, offset) == findNodeWithOffsetInternal(ns, Root, offset)

\* toggleTreeViewNode() with the cursor on curLine, up to the walk of
\* nodeUnderCursor().
Toggle(curLine) ==
  /\ calls < MaxCalls
  /\ calls' = calls + 1
  /\ ops' = ops \cup {[Op(calls + 1, "toggle", Root, "cursor") EXCEPT
                         !.line = curLine]}
  /\ UNCHANGED <<nodes, data, now, marking, emitted, eventQueue, returned,
                 notes, viewVars, featureVars>>

\* nodeUnderCursor() answers: the node it found is expanded or collapsed
\* when it is expandable.
ToggleFind(op, t) ==
  /\ op \in ops
  /\ op.pc = "cursor"
  /\ LET node == findNodeWithOffset(nodes, op.line + 1)
     IN /\ node # -1
        /\ IF node = 0 \/ ~expandable(nodes, node)
           THEN /\ ops' = ops \ {op}
                /\ UNCHANGED <<nodes, now, notes, returned>>
           ELSE IF isExpanded(nodes, node)
                THEN collapse(op, node, t)
                ELSE expand(op, node, t)
  /\ UNCHANGED <<data, marking, emitted, eventQueue, calls, viewVars, featureVars>>

\* `await this.touch()` of expand() and collapse(): the stamps of the
\* resolved part of the subtree are set; when no node is left waiting the
\* caller goes on to its next await.
TouchStep(op, t) ==
  /\ op \in ops
  /\ op.pc = "touch"
  /\ op.front = {} \/ \E n \in op.front : nodes[n].st = "ok"
  /\ LET r == touch(nodes, op.front, t)
         next == IF op.kind = "expand" THEN "children" ELSE "height"
         n == op.node
         others == NoteTouch(ops \ {op}, TouchedNodes(nodes, op.front))
     IN IF r.front = {}
        THEN /\ nodes' = IF op.kind = "expand" \/ isExpanded(r.ns, n)
                         THEN getChildren(r.ns, n) ELSE r.ns
             /\ ops' = others \cup {[op EXCEPT !.pc = next, !.front = {}]}
        ELSE /\ nodes' = r.ns
             /\ ops' = others \cup {[op EXCEPT !.front = r.front]}
  /\ now' = IF op.front = {} THEN now ELSE t
  /\ UNCHANGED <<data, marking, emitted, eventQueue, returned, calls, notes,
                 viewVars, featureVars>>

\* `await this.getChildren()` of expand().
ExpandChildren(op) ==
  /\ op \in ops
  /\ op.kind = "expand" /\ op.pc = "children"
  /\ nodes[op.node].st = "ok"
  /\ ops' = (ops \ {op}) \cup {[op EXCEPT !.pc = "collect"]}
  /\ UNCHANGED <<nodes, data, now, marking, emitted, eventQueue, returned,
                 calls, notes, viewVars, featureVars>>

\* `await this.collectVisibleNodes()` of expand() and what follows it.
ExpandFinish(op) ==
  /\ op \in ops
  /\ op.kind = "expand" /\ op.pc = "collect"
  /\ Settled(nodes, op.node)
  /\ LET n == op.node
         visibleNodes == collectVisibleNodes(nodes, n)
     IN IF op.curState = nodes[n].lastTouch /\ ~nodes[n].defunct
        THEN /\ fire(Update(makeView(nodes, n), 1, visibleNodes, FALSE, op, nodes))
             /\ returned' = Return(op, TRUE)
             /\ ops' = Resume(op, TRUE)
        ELSE /\ UNCHANGED <<emitted, eventQueue>>
             /\ returned' = Return(op, FALSE)
             /\ ops' = Resume(op, FALSE)
  /\ UNCHANGED <<nodes, data, now, marking, calls, notes, viewVars, featureVars>>

\* collapse() taking the height once the node is collapsed.
CollapseFinishLate(op) ==
  /\ op \in ops
  /\ op.kind = "collapse" /\ op.pc = "height"
  /\ Settled(nodes, op.node)
  /\ LET n == op.node
         ns == [nodes EXCEPT ![n].expanded = FALSE]
         h == height(ns, n)
     IN /\ nodes' = ns
        /\ IF op.curState = ns[n].lastTouch /\ ~ns[n].defunct
           THEN /\ fire(Update(makeView(ns, n), h, <<makeView(ns, n)>>, FALSE, op, ns))
                /\ returned' = Return(op, TRUE)
           ELSE /\ UNCHANGED <<emitted, eventQueue>>
                /\ returned' = Return(op, FALSE)
  /\ ops' = ops \ {op}
  /\ UNCHANGED <<data, now, marking, calls, notes, viewVars, featureVars>>

\* `await this.height()` of collapse() and what follows it.
CollapseFinish(op) ==
  /\ op \in ops
  /\ op.kind = "collapse" /\ op.pc = "height"
  /\ Settled(nodes, op.node)
  /\ LET n == op.node
         h == height(nodes, n)
         ns == [nodes EXCEPT ![n].expanded = FALSE]
     IN /\ nodes' = ns
        /\ IF op.curState = ns[n].lastTouch /\ ~ns[n].defunct
           THEN /\ fire(Update(makeView(ns, n), h, <<makeView(ns, n)>>, FALSE, op, ns))
                /\ returned' = Return(op, TRUE)
           ELSE /\ UNCHANGED <<emitted, eventQueue>>
                /\ returned' = Return(op, FALSE)
  /\ ops' = ops \ {op}
  /\ UNCHANGED <<data, now, marking, calls, notes, viewVars, featureVars>>

\* findNodeByUri(uri): the first match in pre-order over the expanded
\* projection; 0 stands for undefined, -1 for a walk still awaiting children.
RECURSIVE findNodeByUriInternal(_, _, _, _), findNodeByUriChildren(_, _, _, _, _)
findNodeByUriChildren(ns, acc, kids, i, u) ==
  IF i > Len(kids) THEN acc
  ELSE findNodeByUriChildren(ns, findNodeByUriInternal(ns, acc, kids[i], u),
                             kids, i + 1, u)

\* The search going down into every node whose children are resolved,
\* expanded or not.
findNodeByUriCached(ns, acc, n, u) ==
  IF acc # 0 THEN acc
  ELSE IF ns[n].uri = u THEN n
  ELSE IF ns[n].st = "ok" THEN findNodeByUriChildren(ns, 0, ns[n].kids, 1, u)
  ELSE IF isExpanded(ns, n) THEN -1
  ELSE 0

findNodeByUriInternal(ns, acc, n, u) ==
  IF acc # 0 THEN acc
  ELSE IF ns[n].uri = u THEN n
  ELSE IF isExpanded(ns, n)
       THEN IF ns[n].st = "ok" THEN findNodeByUriChildren(ns, 0, ns[n].kids, 1, u)
            ELSE -1
       ELSE 0

findNodeByUri(ns, u) == findNodeByUriInternal(ns, 0, Root, u)

\* Every expand()/collapse() in flight on n learns that refreshSubtree was
\* invoked on n by call c (history only).
NoteRace(os, n, c) ==
  {IF o.node = n /\ o.kind \in {"expand", "collapse"}
   THEN [o EXCEPT !.raced = @ \cup {c}] ELSE o : o \in os}

\* refreshSubtree(viewNode), up to its first await (inside height()).
refreshSubtree(op, n) ==
  /\ nodes' = IF isExpanded(nodes, n) THEN getChildren(nodes, n) ELSE nodes
  /\ ops' = NoteRace(ops \ {op}, n, op.call) \cup
            {[op EXCEPT !.node = n, !.pc = "height",
                        !.h0 = IF Settled(nodes, n) THEN height(nodes, n) ELSE 0]}

\* provider.updatedNodes fires: the server moved to version v and names the
\* changed node u, or no node (ROOT) for the whole tree.
Push(u, v) ==
  /\ calls < MaxCalls
  /\ calls' = calls + 1
  /\ data' = v
  /\ LET op == [Op(calls + 1, "refresh", Root, "find") EXCEPT
                  !.uri = u,
                  !.viewNode = [set |-> u # ROOT, exp |-> u \in Versions[v].exp,
                                icon |-> u \in Versions[v].icon]]
     IN IF u = ROOT
        THEN refreshSubtree(op, Root)
        ELSE /\ ops' = ops \cup {op}
             /\ nodes' = nodes
  /\ UNCHANGED <<now, marking, emitted, eventQueue, returned, notes, viewVars, featureVars>>

\* findNodeByUri(node.nodeUri).then(treeNode => treeNode.refreshSubtree(node))
PushFind(op) ==
  /\ op \in ops
  /\ op.kind = "refresh" /\ op.pc = "find"
  /\ LET treeNode == findNodeByUri(nodes, op.uri)
     IN /\ treeNode # -1
        /\ IF treeNode = 0
           THEN /\ ops' = ops \ {op}
                /\ nodes' = nodes
           ELSE refreshSubtree(op, treeNode)
  /\ UNCHANGED <<data, now, marking, emitted, eventQueue, returned, calls,
                 notes, viewVars, featureVars>>

\* `const height = await this.height()` and the test that follows it.
RefreshHeight(op) ==
  /\ op \in ops
  /\ op.kind = "refresh" /\ op.pc = "height"
  /\ Settled(nodes, op.node)
  /\ LET n == op.node
     IN /\ nodes' = IF isExpanded(nodes, n) THEN getChildren(nodes, n) ELSE nodes
        /\ ops' = (ops \ {op}) \cup
                  {[op EXCEPT !.height = height(nodes, n),
                              !.pc = IF isExpanded(nodes, n) THEN "mark" ELSE "open"]}
  /\ UNCHANGED <<data, now, marking, emitted, eventQueue, returned, calls,
                 notes, viewVars, featureVars>>

\* `children.map(child => child.markAsDefunct())`, not awaited.
RefreshMark(op) ==
  /\ op \in ops
  /\ op.kind = "refresh" /\ op.pc = "mark"
  /\ nodes[op.node].st = "ok"
  /\ LET r1 == markChildren(nodes, nodes[op.node].kids, 1)
         r == markAsDefunct(r1.ns, marking \cup r1.front)
     IN /\ nodes' = r.ns
        /\ marking' = r.front
  /\ ops' = (ops \ {op}) \cup {[op EXCEPT !.pc = "open"]}
  /\ UNCHANGED <<data, now, emitted, eventQueue, returned, calls, notes,
                 viewVars, featureVars>>

\* `await findOpenNodes([], [], this)`, `this.children = undefined` and the
\* call of reloadSubtree up to its await.
RefreshOpen(op) ==
  /\ op \in ops
  /\ op.kind = "refresh" /\ op.pc = "open"
  /\ Settled(nodes, op.node)
  /\ LET n == op.node
         openNodes == findOpenNodes(nodes, << >>, << >>, n)
         ns == [nodes EXCEPT ![n].st = "undef", ![n].kids = << >>]
     IN /\ nodes' = IF Len(openNodes) # 0 THEN getChildren(ns, n) ELSE ns
        /\ ops' = (ops \ {op}) \cup
                  {[op EXCEPT !.pc = "reload", !.openNodes = openNodes,
                              !.reload = IF Len(openNodes) # 0
                                         THEN {[node |-> n, open |-> openNodes]}
                                         ELSE {}]}
  /\ UNCHANGED <<data, now, marking, emitted, eventQueue, returned, calls,
                 notes, viewVars, featureVars>>

\* `await reloadSubtree(this, openNodes)` and the replacement of viewNode.
RefreshReload(op) ==
  /\ op \in ops
  /\ op.kind = "refresh" /\ op.pc = "reload"
  /\ op.reload = {} \/ \E f \in op.reload : nodes[f.node].st = "ok"
  /\ LET r == reloadSubtree(nodes, op.reload)
         n == op.node
     IN IF r.front = {}
        THEN /\ nodes' = IF op.viewNode.set
                         THEN [r.ns EXCEPT ![n].exp = op.viewNode.exp,
                                           ![n].icon = op.viewNode.icon]
                         ELSE r.ns
             /\ ops' = (ops \ {op}) \cup {[op EXCEPT !.pc = "collect", !.reload = {}]}
        ELSE /\ nodes' = r.ns
             /\ ops' = (ops \ {op}) \cup {[op EXCEPT !.reload = r.front]}
  /\ UNCHANGED <<data, now, marking, emitted, eventQueue, returned, calls,
                 notes, viewVars, featureVars>>

\* refreshSubtree firing the height the node has after the reload.
RefreshFinishAfter(op) ==
  /\ op \in ops
  /\ op.kind = "refresh" /\ op.pc = "collect"
  /\ Settled(nodes, op.node)
  /\ LET n == op.node
     IN fire(Update(makeView(nodes, n), height(nodes, n),
                    collectVisibleNodes(nodes, n), FALSE, op, nodes))
  /\ returned' = Return(op, TRUE)
  /\ ops' = ops \ {op}
  /\ UNCHANGED <<nodes, data, now, marking, calls, notes, viewVars, featureVars>>

\* `await this.collectVisibleNodes()` and the unconditional fire.
RefreshFinish(op) ==
  /\ op \in ops
  /\ op.kind = "refresh" /\ op.pc = "collect"
  /\ Settled(nodes, op.node)
  /\ LET n == op.node
     IN fire(Update(makeView(nodes, n), op.height, collectVisibleNodes(nodes, n),
                 FALSE, op, nodes))
  /\ returned' = Return(op, TRUE)
  /\ ops' = ops \ {op}
  /\ UNCHANGED <<nodes, data, now, marking, calls, notes, viewVars, featureVars>>

\* The identity chains revealByParents and revealDocument are called with,
\* from the child of the root down to the target.
RevealChains == {<<"A", "C">>, <<"A", "X">>, <<"B", "X">>}

\* The chains loadParentInfo answers to revealDocument.
UriChains == {<<"A", "C">>}

\* revealByParents(parents), or revealDocument once loadParentInfo has
\* answered uriChain: revealDocumentInternal(parents, this.rootNode) is
\* called.
Reveal(parents, caller) ==
  /\ calls < MaxCalls
  /\ calls' = calls + 1
  /\ ops' = ops \cup
       {[Op(calls + 1, "reveal", Root, "internal") EXCEPT
           !.caller = caller, !.parents = parents, !.chain = parents,
           !.wasOpen = {n \in NodeIds : isExpanded(nodes, n)}]}
  /\ UNCHANGED <<nodes, data, now, marking, emitted, eventQueue, returned,
                 notes, viewVars, featureVars>>

\* revealDocument firing its focus event whatever the result, for the node
\* the search ended at.
RevealResultUnconditional(op, result) ==
  /\ returned' = [Return(op, result # 0) EXCEPT !.kind = "reveal",
                                                !.node = result]
  /\ ops' = ops \ {op}
  /\ IF op.caller = "document"
     THEN fire(Update(makeView(nodes, op.node), 1, << >>, TRUE, op, nodes))
     ELSE UNCHANGED <<emitted, eventQueue>>

\* revealDocumentInternal returns result to revealByParents or
\* revealDocument (0 for undefined): revealDocument fires a focus event for
\* a node.
RevealResult(op, result) ==
  /\ returned' = [Return(op, result # 0) EXCEPT !.kind = "reveal",
                                                !.node = result]
  /\ ops' = ops \ {op}
  /\ IF result # 0 /\ op.caller = "document"
     THEN fire(Update(makeView(nodes, result), 1, << >>, TRUE,
                      [op EXCEPT !.node = result], nodes))
     ELSE UNCHANGED <<emitted, eventQueue>>

\* revealDocumentInternal(parents, node) up to its first await.
RevealInternal(op, t) ==
  /\ op \in ops
  /\ op.kind = "reveal" /\ op.pc = "internal"
  /\ IF Len(op.parents) = 0
     THEN /\ RevealResult(op, op.node)
          /\ UNCHANGED <<nodes, now, notes>>
     ELSE IF isExpanded(nodes, op.node)
          THEN /\ nodes' = getChildren(nodes, op.node)
               /\ ops' = (ops \ {op}) \cup {[op EXCEPT !.pc = "revealChildren"]}
               /\ UNCHANGED <<now, notes, returned, emitted, eventQueue>>
          ELSE /\ expand(op, op.node, t)
               /\ UNCHANGED <<emitted, eventQueue>>
  /\ UNCHANGED <<data, marking, calls, viewVars, featureVars>>

\* revealDocumentInternal going on with the last child, whatever its
\* nodeUri.
RevealChildrenLast(op) ==
  /\ op \in ops
  /\ op.kind = "reveal" /\ op.pc = "revealChildren"
  /\ nodes[op.node].st = "ok"
  /\ LET children == nodes[op.node].kids
     IN IF Len(children) > 0
        THEN /\ ops' = (ops \ {op}) \cup
                  {[op EXCEPT !.node = children[Len(children)],
                              !.parents = Tail(op.parents), !.pc = "internal"]}
             /\ UNCHANGED <<returned, emitted, eventQueue>>
        ELSE RevealResult(op, 0)
  /\ UNCHANGED <<nodes, data, now, marking, calls, notes, viewVars, featureVars>>

\* revealDocumentInternal going on with the first child when no child has
\* the nodeUri looked for.
RevealChildrenAny(op) ==
  /\ op \in ops
  /\ op.kind = "reveal" /\ op.pc = "revealChildren"
  /\ nodes[op.node].st = "ok"
  /\ LET children == nodes[op.node].kids
         childUri == op.parents[1]
         found == {i \in 1..Len(children) : nodes[children[i]].uri = childUri}
         pick == IF found # {} THEN found ELSE 1..Len(children)
     IN IF pick # {}
        THEN /\ ops' = (ops \ {op}) \cup
                  {[op EXCEPT
                      !.node = children[CHOOSE i \in pick :
                                          \A j \in pick : i <= j],
                      !.parents = Tail(op.parents), !.pc = "internal"]}
             /\ UNCHANGED <<returned, emitted, eventQueue>>
        ELSE RevealResult(op, 0)
  /\ UNCHANGED <<nodes, data, now, marking, calls, notes, viewVars, featureVars>>

\* `const children = await node.getChildren()` of revealDocumentInternal
\* and the search of the child.
RevealChildren(op) ==
  /\ op \in ops
  /\ op.kind = "reveal" /\ op.pc = "revealChildren"
  /\ nodes[op.node].st = "ok"
  /\ LET children == nodes[op.node].kids
         childUri == op.parents[1]
         found == {i \in 1..Len(children) : nodes[children[i]].uri = childUri}
     IN IF found # {}
        THEN /\ ops' = (ops \ {op}) \cup
                  {[op EXCEPT
                      !.node = children[CHOOSE i \in found :
                                          \A j \in found : i <= j],
                      !.parents = Tail(op.parents), !.pc = "internal"]}
             /\ UNCHANGED <<returned, emitted, eventQueue>>
        ELSE RevealResult(op, 0)
  /\ UNCHANGED <<nodes, data, now, marking, calls, notes, viewVars, featureVars>>

\* node.expand() answered false: revealDocumentInternal returns undefined.
RevealReturn(op) ==
  /\ op \in ops
  /\ op.kind = "reveal" /\ op.pc = "revealReturn"
  /\ RevealResult(op, 0)
  /\ UNCHANGED <<nodes, data, now, marking, calls, notes, viewVars, featureVars>>

\* The continuation of op is on the microtask queue: what it awaits is
\* resolved.
Ready(op) ==
  CASE op.pc = "cursor" -> findNodeWithOffset(nodes, op.line + 1) # -1
    [] op.pc = "find" -> findNodeByUri(nodes, op.uri) # -1
    [] op.pc = "touch" ->
         op.front = {} \/ \E n \in op.front : nodes[n].st = "ok"
    [] op.pc \in {"children", "mark", "revealChildren"} ->
         nodes[op.node].st = "ok"
    [] op.pc \in {"internal", "revealReturn"} -> TRUE
    [] op.pc \in {"height", "open", "collect"} -> Settled(nodes, op.node)
    [] op.pc = "reload" ->
         op.reload = {} \/ \E f \in op.reload : nodes[f.node].st = "ok"
    [] OTHER -> FALSE

\* The load of n's children fails: the promise cached in n.children is
\* rejected.
LoadReject(n) ==
  /\ nodes[n].st = "pending"
  /\ Cardinality({m \in NodeIds : nodes[m].st = "failed"}) < MaxLoadFail
  /\ nodes' = [nodes EXCEPT ![n].st = "failed"]
  /\ UNCHANGED <<data, now, ops, marking, emitted, eventQueue, returned,
                 calls, notes, viewVars, featureVars>>

\* A walk from n through the expanded nodes meets a rejected children
\* promise.
RECURSIVE Broken(_, _)
Broken(ns, n) ==
  /\ isExpanded(ns, n)
  /\ \/ ns[n].st = "failed"
     \/ /\ ns[n].st = "ok"
        /\ \E i \in 1..Len(ns[n].kids) : Broken(ns, ns[n].kids[i])

\* What op awaits is rejected.
Rejected(op) ==
  CASE op.pc = "find" -> Broken(nodes, Root)
    [] op.pc = "touch" -> \E n \in op.front : nodes[n].st = "failed"
    [] op.pc \in {"children", "mark", "revealChildren"} ->
         nodes[op.node].st = "failed"
    [] op.pc \in {"height", "open", "collect"} -> Broken(nodes, op.node)
    [] op.pc = "reload" -> \E f \in op.reload : nodes[f.node].st = "failed"
    [] OTHER -> FALSE

\* The await of op throws: no statement of the operation is in a try, so
\* the promise the operation returned is rejected.
Reject(op) ==
  /\ op \in ops
  /\ Rejected(op)
  /\ ops' = ops \ {op}
  /\ returned' = [Return(op, FALSE) EXCEPT !.rejected = TRUE]
  /\ UNCHANGED <<nodes, data, now, marking, emitted, eventQueue, calls, notes,
                 viewVars, featureVars>>

\* The callback of entry k of eventQueue is on the microtask queue.
CallbackReady(k) ==
  /\ eventQueue[k].st = "queued"
  /\ eventQueueThen(eventQueue, k)
  /\ IF eventQueue[k].ev.root = NoView THEN TRUE
     ELSE ~findNodeOffset(nodes, eventQueue[k].ev.root).blocked

\* No continuation of the tree model is on the microtask queue.
Drained ==
  /\ \A op \in ops : ~Ready(op)
  /\ \A n \in marking : nodes[n].st # "ok"

\* The microtask queue is empty: the event loop takes the next event (a key
\* press, a notification of the server, an answer of the server or of the
\* display surface) only then.
Idle ==
  /\ Drained
  /\ \A k \in 1..Len(eventQueue) : ~CallbackReady(k)

\* A display-surface call answers: it succeeds, or it is one of the calls
\* that fail (a call addressed with the offset NaN among them).
Answers == {TRUE} \cup (IF fails < MaxFail THEN {FALSE} ELSE {})

\* The call entry k awaits at pc answers: an event of the event loop.
Awaits(k, pc) ==
  /\ Idle
  /\ eventQueue[k].st = "running"
  /\ eventQueue[k].pc = pc

SetTask(k, task) == eventQueue' = [eventQueue EXCEPT ![k] = task]

Failed(k, call) ==
  /\ SetTask(k, [eventQueue[k] EXCEPT !.st = "failed", !.made = @ \cup {call}])
  /\ fails' = fails + 1

\* The callback of entry k starts: `await this.model.findNodeOffset(ev.root) - 1`
ViewOffset(k) ==
  /\ eventQueue[k].st = "queued"
  /\ eventQueueThen(eventQueue, k)
  /\ LET task == eventQueue[k]
         r == findNodeOffset(nodes, task.ev.root)
     IN IF task.ev.root = NoView
        THEN SetTask(k, [task EXCEPT !.st = "failed"])
        ELSE /\ ~r.blocked
             /\ SetTask(k, [task EXCEPT !.st = "running", !.pc = "windows",
                                        !.nan = ~r.found,
                                        !.offset = IF r.found THEN r.n - 1 ELSE 0])
  /\ UNCHANGED <<treeVars, featureVars, emitted, viewVars, featureVars>>

\* The callback going on to modifyBuffer for a focus event too.
ViewWindowsNoFocus(k, ok) ==
  /\ Awaits(k, "windows")
  /\ IF ok
     THEN /\ SetTask(k, [eventQueue[k] EXCEPT !.pc = "unlock",
                                              !.made = @ \cup {"windows"}])
          /\ fails' = fails
     ELSE Failed(k, "windows")
  /\ UNCHANGED <<treeVars, featureVars, emitted, buffer, lineToSignId, highlightPlaceId,
                 signs, cursor, modifiable, readonly, firstUpdate>>

\* nvim.tabpage, nvim.windows, tabpage.windows and win_findbuf answer.
ViewWindows(k, ok) ==
  /\ Awaits(k, "windows")
  /\ IF ok
     THEN /\ SetTask(k, [eventQueue[k] EXCEPT
                 !.pc = IF eventQueue[k].ev.focusEvent THEN "focus" ELSE "unlock",
                 !.made = @ \cup {"windows"}])
          /\ fails' = fails
     ELSE Failed(k, "windows")
  /\ UNCHANGED <<treeVars, featureVars, emitted, buffer, lineToSignId, highlightPlaceId,
                 signs, cursor, modifiable, readonly, firstUpdate>>

\* A focus event, which revealDocument fires: win_gotoid and
\* coc#util#jumpTo2(1, offset + 1) answer.
ViewFocus(k, ok) ==
  /\ Awaits(k, "focus")
  /\ IF ok
     THEN /\ SetTask(k, [eventQueue[k] EXCEPT !.st = "done", !.pc = "end",
                                              !.made = @ \cup {"cursor"}])
          /\ cursor' = IF eventQueue[k].nan THEN cursor
                       ELSE eventQueue[k].offset + 1
          /\ fails' = fails
     ELSE /\ Failed(k, "cursor")
          /\ cursor' = cursor
  /\ UNCHANGED <<treeVars, featureVars, emitted, buffer, lineToSignId, highlightPlaceId,
                 signs, modifiable, readonly, firstUpdate>>

\* modifyBuffer: setOption('readonly', false), setOption('modifiable', true);
\* the call that fails is the first or the second, and the action with its
\* finally is not reached.
ViewUnlock(k, ok) ==
  /\ Awaits(k, "unlock")
  /\ IF ok
     THEN /\ SetTask(k, [eventQueue[k] EXCEPT !.pc = "snapshot",
                                              !.made = @ \cup {"setOption"}])
          /\ readonly' = FALSE
          /\ modifiable' = TRUE
          /\ fails' = fails
     ELSE /\ Failed(k, "setOption")
          /\ readonly' \in {readonly, FALSE}
          /\ modifiable' = modifiable
  /\ UNCHANGED <<treeVars, featureVars, emitted, buffer, lineToSignId, highlightPlaceId,
                 signs, cursor, firstUpdate>>

\* A failure inside the action of modifyBuffer ending the callback at once.
ThrownPastFinally(k, call) ==
  /\ SetTask(k, [eventQueue[k] EXCEPT !.st = "failed", !.pc = "end",
                                      !.err = TRUE, !.made = @ \cup {call}])
  /\ fails' = fails + 1

\* A failure inside the action of modifyBuffer goes to its finally.
Thrown(k, call) ==
  /\ SetTask(k, [eventQueue[k] EXCEPT !.pc = "lock", !.err = TRUE,
                                      !.made = @ \cup {call}])
  /\ fails' = fails + 1

\* `const cursor = await window.cursor` for the window of the buffer
ViewSnapshot(k, ok) ==
  /\ Awaits(k, "snapshot")
  /\ IF ok
     THEN /\ SetTask(k, [eventQueue[k] EXCEPT !.pc = "remove", !.curLine = cursor,
                                              !.made = @ \cup {"getCursor"}])
          /\ fails' = fails
     ELSE Thrown(k, "getCursor")
  /\ UNCHANGED <<treeVars, featureVars, emitted, buffer, lineToSignId, highlightPlaceId,
                 signs, cursor, modifiable, readonly, firstUpdate>>

\* removeRows(offset, offset + ev.length); the display keeps the cursor on
\* a line of the buffer.
ViewRemove(k, ok) ==
  /\ Awaits(k, "remove")
  /\ LET task == eventQueue[k]
         from == task.offset
         to == task.offset + task.ev.length
         r == IF task.nan THEN [map |-> lineToSignId, unplaceList |-> {}]
              ELSE removeRowsLoop(lineToSignId, {}, from, to)
         made == {"remove"} \cup
                 (IF r.unplaceList # {} THEN {"unplace"} ELSE {})
     IN /\ lineToSignId' = r.map
        /\ IF ok
           THEN /\ SetTask(k, [task EXCEPT !.pc = "insert", !.made = @ \cup made])
                /\ signs' = signs \ r.unplaceList
                /\ buffer' = IF task.nan THEN buffer
                             ELSE bufferRemove(buffer, from, to)
                /\ cursor' = Min(cursor, LineCount(buffer'))
                /\ fails' = fails
           ELSE /\ Thrown(k, "remove")
                /\ UNCHANGED <<signs, buffer, cursor>>
  /\ UNCHANGED <<treeVars, featureVars, emitted, highlightPlaceId, modifiable, readonly,
                 firstUpdate>>

\* insertRows(offset, ev.payload)
ViewInsert(k, ok) ==
  /\ Awaits(k, "insert")
  /\ LET task == eventQueue[k]
         r == insertRowsLoop(lineToSignId, highlightPlaceId, {}, task.ev.payload,
                             1, IF task.nan THEN NaNLine ELSE task.offset + 1)
         made == {"insert"} \cup (IF r.placed # {} THEN {"place"} ELSE {})
     IN IF ok
        THEN /\ SetTask(k, [task EXCEPT !.pc = "restore", !.made = @ \cup made])
             /\ buffer' = IF task.nan THEN buffer
                          ELSE bufferInsert(buffer, makeRows(task.ev.payload),
                                            task.offset)
             /\ lineToSignId' = r.map
             /\ highlightPlaceId' = r.placeId
             /\ signs' = IF task.nan THEN signs ELSE signs \cup r.placed
             /\ fails' = fails
        ELSE /\ Thrown(k, "insert")
             /\ UNCHANGED <<buffer, lineToSignId, highlightPlaceId, signs>>
  /\ UNCHANGED <<treeVars, featureVars, emitted, cursor, modifiable, readonly, firstUpdate>>

\* window.setCursor([curLine, 1]) and the removal of the line a new buffer
\* starts with; the display rejects a cursor line the buffer does not have.
ViewRestore(k, ok) ==
  /\ Awaits(k, "restore")
  /\ LET task == eventQueue[k]
     IN IF ~ok
        THEN /\ Thrown(k, "cursor")
             /\ UNCHANGED <<cursor, firstUpdate, buffer>>
        ELSE IF task.curLine \in 1..LineCount(buffer)
        THEN /\ SetTask(k, [task EXCEPT !.pc = "lock", !.made = @ \cup {"cursor"}])
             /\ cursor' = task.curLine
             /\ firstUpdate' = FALSE
             /\ buffer' = IF firstUpdate
                          THEN bufferRemove(buffer, Len(task.ev.payload),
                                            Len(task.ev.payload) + 1)
                          ELSE buffer
             /\ fails' = fails
        ELSE /\ SetTask(k, [task EXCEPT !.pc = "lock", !.err = TRUE,
                                        !.made = @ \cup {"cursor"}])
             /\ fails' = fails
             /\ UNCHANGED <<cursor, firstUpdate, buffer>>
  /\ UNCHANGED <<treeVars, featureVars, emitted, lineToSignId, highlightPlaceId, signs,
                 modifiable, readonly>>

\* modifyBuffer, its finally: setOption('modifiable', false),
\* setOption('readonly', true); the callback of entry k ends. The call that
\* fails is the first or the second.
ViewLock(k, ok) ==
  /\ Awaits(k, "lock")
  /\ IF ok
     THEN /\ SetTask(k, [eventQueue[k] EXCEPT
                 !.st = IF eventQueue[k].err THEN "failed" ELSE "done",
                 !.pc = "end"])
          /\ modifiable' = FALSE
          /\ readonly' = TRUE
          /\ fails' = fails
     ELSE /\ Failed(k, "setOption")
          /\ modifiable' \in {modifiable, FALSE}
          /\ readonly' = readonly
  /\ UNCHANGED <<treeVars, featureVars, emitted, buffer, lineToSignId, highlightPlaceId,
                 signs, cursor, firstUpdate>>

\* ----------------------------------------------------- TreeViewFeature
\* The view of the tree above, and the views the server announces later.
TreeViewId == "view0"
MessageViews == {"view1", "view2"}

\* A TreeViewNode of a notification: its viewId and its nodeUri.
MessageNodes == [viewId : MessageViews, nodeUri : {ROOT, "A"}]

\* message.nodes of a treeViewDidChange notification.
Messages == UNION {[1..n -> MessageNodes] : n \in 1..MaxNodes}

\* TreeModelManager.register: a new TreeModel listening to the provider's
\* updatedNodes takes the place of the view's entry.
register(models, provider) ==
  (provider.viewId :> [updatedNodes |-> provider.updatedNodes]) @@ models

\* The callback of forEach that registers a provider for every node and
\* never remembers its emitter.
didChangeNodeForgetful(f, node) ==
  LET updatesEmitter == Len(f.providers) + 1
      treeViewProvider == [viewId |-> node.viewId,
                           updatedNodes |-> updatesEmitter]
  IN [f EXCEPT !.providers = Append(@, treeViewProvider),
               !.treeModels = register(@, treeViewProvider)]

\* The callback of message.nodes.forEach: the node of a view without an
\* emitter makes the emitter (a new object: the next emitter number) and
\* the provider and registers them; the node of a view with an emitter is
\* fired on it.
didChangeNode(f, node) ==
  LET viewId == node.viewId
  IN IF viewId \notin DOMAIN f.viewUpdaters
     THEN LET updatesEmitter == Len(f.providers) + 1
              treeViewProvider == [viewId |-> viewId,
                                   updatedNodes |-> updatesEmitter]
          IN [f EXCEPT !.providers = Append(@, treeViewProvider),
                       !.treeModels = register(@, treeViewProvider),
                       !.viewUpdaters = (viewId :> updatesEmitter) @@ @]
     ELSE [f EXCEPT !.updatedNodes =
                      Append(@, [emitter |-> f.viewUpdaters[viewId],
                                 node |-> node])]

\* message.nodes.forEach from node i on.
RECURSIVE forEachNode(_, _, _)
forEachNode(f, nodeList, i) ==
  IF i > Len(nodeList) THEN f
  ELSE forEachNode(didChangeNode(f, nodeList[i]), nodeList, i + 1)

\* The handler of the notification metals/treeViewDidChange.
DidChange(message) ==
  /\ messages < MaxMessages
  /\ messages' = messages + 1
  /\ received' = received \o message
  /\ LET f == forEachNode([viewUpdaters |-> viewUpdaters,
                           treeModels |-> treeModels,
                           providers |-> providers,
                           updatedNodes |-> updatedNodes], message, 1)
     IN /\ viewUpdaters' = f.viewUpdaters
        /\ treeModels' = f.treeModels
        /\ providers' = f.providers
        /\ updatedNodes' = f.updatedNodes
  /\ UNCHANGED <<treeVars, emitted, eventQueue, viewVars>>

\* The state once TreeView.init() has returned: the root is expanded, its
\* children are loaded from the first version and shown in the buffer. The
\* server has announced the view of the tree with one node, which
\* registered its provider.
Init ==
  /\ nodes = <<[NewNode(ROOT, 0, FALSE, FALSE, 0) EXCEPT
                   !.expanded = TRUE, !.st = "ok", !.kids = <<2, 3>>],
                NewNode("A", 1, TRUE, TRUE, 0),
                NewNode("B", 1, FALSE, FALSE, 0)>>
  /\ data = 1
  /\ now = 0
  /\ ops = {}
  /\ marking = {}
  /\ emitted = << >>
  /\ returned = NoReturn
  /\ calls = 0
  /\ notes = 0
  /\ eventQueue = << >>
  /\ buffer = makeRows(<<makeView(nodes, 2), makeView(nodes, 3)>>)
  /\ lineToSignId = (1 :> 0)
  /\ highlightPlaceId = 1
  /\ signs = {0}
  /\ cursor = 1
  /\ modifiable = FALSE
  /\ readonly = TRUE
  /\ firstUpdate = FALSE
  /\ fails = 0
  /\ viewUpdaters = (TreeViewId :> 1)
  /\ treeModels = (TreeViewId :> [updatedNodes |-> 1])
  /\ providers = <<[viewId |-> TreeViewId, updatedNodes |-> 1]>>
  /\ updatedNodes = << >>
  /\ received = <<[viewId |-> TreeViewId, nodeUri |-> ROOT]>>
  /\ messages = 1

\* The continuations of the operations in flight.
Steps ==
  \/ \E op \in ops, t \in DateNow : TouchStep(op, t)
  \/ \E op \in ops : ExpandChildren(op)
  \/ \E op \in ops : ExpandFinish(op)
  \/ \E op \in ops : CollapseFinish(op)
  \/ \E op \in ops : PushFind(op)
  \/ \E op \in ops : RefreshHeight(op)
  \/ \E op \in ops : RefreshMark(op)
  \/ \E op \in ops : RefreshOpen(op)
  \/ \E op \in ops : RefreshReload(op)
  \/ \E op \in ops : RefreshFinish(op)
  \/ \E op \in ops, t \in DateNow : RevealInternal(op, t)
  \/ \E op \in ops : RevealChildren(op)

\* The program as its users drive it: key presses in the tree buffer,
\* notifications and answers of the server, each taken when the microtask
\* queue is empty, and the continuations on the microtask queue in any
\* order.
Next ==
  \/ \E curLine \in 0..MaxLine : Drained /\ Toggle(curLine)
  \/ \E u \in PushUris, v \in 1..Len(Versions) : Drained /\ Push(u, v)
  \/ \E parents \in UriChains : Drained /\ Reveal(parents, "document")
  \/ \E n \in NodeIds : Drained /\ LoadResolve(n)
  \/ \E op \in ops, t \in DateNow : ToggleFind(op, t)
  \/ MarkStep
  \/ \E op \in ops : RevealReturn(op)
  \/ Steps

Spec == Init /\ [][Next]_vars

\* The Node and TreeModel API called directly, one call after the other.
NextApi ==
  \/ \E n \in NodeIds, t \in DateNow : StartExpand(n, t)
  \/ \E n \in NodeIds, t \in DateNow : StartCollapse(n, t)
  \/ \E u \in PushUris, v \in 1..Len(Versions) : ops = {} /\ Push(u, v)
  \/ \E parents \in RevealChains, caller \in {"byParents", "document"} :
       ops = {} /\ Reveal(parents, caller)
  \/ \E n \in NodeIds : LoadResolve(n)
  \/ \E n \in NodeIds : LoadReject(n)
  \/ \E op \in ops : Reject(op)
  \/ Steps

SpecApi == Init /\ [][NextApi]_vars

\* The TreeView applying the updates while the operations run, the
\* operations started one after the other.
NextView ==
  \/ \E curLine \in 0..MaxLine : Idle /\ ops = {} /\ Toggle(curLine)
  \/ \E u \in PushUris, v \in 1..Len(Versions) : Idle /\ ops = {} /\ Push(u, v)
  \/ \E parents \in UriChains :
       Idle /\ ops = {} /\ Reveal(parents, "document")
  \/ \E n \in NodeIds : Idle /\ LoadResolve(n)
  \/ \E op \in ops, t \in DateNow : ToggleFind(op, t)
  \/ Steps
  \/ \E k \in 1..Len(eventQueue) : ViewOffset(k)
  \/ \E k \in 1..Len(eventQueue), ok \in Answers : ViewWindows(k, ok)
  \/ \E k \in 1..Len(eventQueue), ok \in Answers : ViewFocus(k, ok)
  \/ \E k \in 1..Len(eventQueue), ok \in Answers : ViewUnlock(k, ok)
  \/ \E k \in 1..Len(eventQueue), ok \in Answers : ViewSnapshot(k, ok)
  \/ \E k \in 1..Len(eventQueue), ok \in Answers : ViewRemove(k, ok)
  \/ \E k \in 1..Len(eventQueue), ok \in Answers : ViewInsert(k, ok)
  \/ \E k \in 1..Len(eventQueue), ok \in Answers : ViewRestore(k, ok)
  \/ \E k \in 1..Len(eventQueue), ok \in Answers : ViewLock(k, ok)

SpecView == Init /\ [][NextView]_vars

\* The TreeViewFeature receiving the notifications of the server about
\* the views it announces after the first.
NextFeature ==
  \/ \E message \in Messages : DidChange(message)

SpecFeature == Init /\ [][NextFeature]_vars

\* -------------------------------------------------------------- properties
\* C1: an expand() or collapse() that was in flight on a node when
\* refreshSubtree was invoked on that node returns false, and fires no
\* update once that refresh has completed.
C1_RacedOperationDiscarded ==
  /\ (returned.kind \in {"expand", "collapse"} /\ returned.raced # {})
       => ~returned.result
  /\ \A i \in 1..Len(emitted) :
       emitted[i].kind \in {"expand", "collapse"} => ~emitted[i].stale

\* C2: the updates are applied in the order they were fired and one at a
\* time: when a display-surface call of update k has been made, every call
\* of the updates fired before it has completed.
C2_UpdatesAppliedInOrder ==
  /\ Len(eventQueue) = Len(emitted)
  /\ \A k \in 1..Len(eventQueue) :
       /\ eventQueue[k].ev.payload =
            (IF emitted[k].root.uri = ROOT /\ emitted[k].payload # << >>
             THEN Tail(emitted[k].payload) ELSE emitted[k].payload)
       /\ eventQueue[k].st # "queued" =>
            \A j \in 1..(k - 1) : eventQueue[j].st \in {"done", "failed"}

\* Two updates have been applied to the buffer, one after the other.
C2_Witness ==
  \E k \in 2..Len(eventQueue) :
    /\ eventQueue[k].st = "done" /\ "insert" \in eventQueue[k].made
    /\ eventQueue[k - 1].st = "done" /\ "insert" \in eventQueue[k - 1].made

\* C3: the failure of one update never stalls the queue: an update queued
\* behind updates that have all finished, failed or not, can be applied.
C3_FailureDoesNotStall ==
  \A k \in 1..Len(eventQueue) :
    (/\ eventQueue[k].st = "queued"
     /\ \A j \in 1..(k - 1) : eventQueue[j].st \in {"done", "failed"})
      => eventQueueThen(eventQueue, k)

\* C4: an update whose anchor findNodeOffset does not find is dropped: no
\* line is removed or inserted, no sign is placed or unplaced and no cursor
\* is moved for it.
C4_UnknownAnchorDropped ==
  \A k \in 1..Len(eventQueue) :
    eventQueue[k].nan =>
      eventQueue[k].made \cap {"remove", "unplace", "insert", "place", "cursor"} = {}

\* C5: no update is fired with a retired node for its anchor.
C5_RetiredNeverEmits ==
  \A i \in 1..Len(emitted) : ~emitted[i].retired

\* C6: a retired node stays retired, its expanded flag does not change and
\* its children cache is neither discarded nor resolved anew.
C6_RetiredNeverMutates ==
  [][\A n \in NodeIds :
       nodes[n].defunct =>
         /\ nodes'[n].defunct
         /\ nodes'[n].expanded = nodes[n].expanded
         /\ nodes'[n].st # nodes[n].st =>
              (nodes[n].st = "pending" /\ nodes'[n].st = "ok")
         /\ nodes[n].st = "ok" => nodes'[n].kids = nodes[n].kids]_vars

\* C7: expand() or collapse() called on a retired node returns false, sends
\* no notification, leaves every node as it is (expanded, stamp, children
\* cache), reads no clock and fires no update.
C7_RetiredCallIsNoOp ==
  [][\A n \in NodeIds, t \in DateNow :
       (nodes[n].defunct /\ (StartExpand(n, t) \/ StartCollapse(n, t))) =>
         /\ returned'.call = calls' /\ ~returned'.result
         /\ UNCHANGED <<nodes, notes, now, emitted, eventQueue, ops,
                        marking>>]_vars

\* expand() has been called on a retired node and has returned.
C7_Witness ==
  /\ returned.wasDefunct
  /\ returned.kind = "expand"
  /\ nodes[returned.node].defunct

\* C8: an expand() called on a node that is expanded already fires no
\* update.
C8_SecondExpandEmitsNothing ==
  \A i \in 1..Len(emitted) : emitted[i].kind = "expand" => ~emitted[i].again

\* No operation is in flight and no children promise of the visible
\* projection is pending.
Quiescent ==
  /\ ops = {}
  /\ marking = {}
  /\ Settled(nodes, Root)

\* C9: in a quiescent state findNodeWithOffset(findNodeOffset(view)) is the
\* node of the view, for every view of the visible projection.
C9_OffsetRoundTrip ==
  Quiescent =>
    LET visible == collectVisibleNodes(nodes, Root)
    IN \A i \in 1..Len(visible) :
         LET r == findNodeOffset(nodes, visible[i])
             node == findNodeWithOffset(nodes, r.n)
         IN /\ r.found
            /\ node > 0
            /\ node = visible[i].node
            /\ nodes[node].uri = visible[i].uri

\* A quiescent state reached by an expand() that shows a grandchild of the
\* root behind its parent and before its uncle.
C9_Witness ==
  /\ Quiescent
  /\ Len(emitted) >= 1
  /\ LET visible == collectVisibleNodes(nodes, Root)
     IN /\ Len(visible) = 4
        /\ visible[3].level = 2
        /\ findNodeWithOffset(nodes, findNodeOffset(nodes, visible[4]).n)
             = visible[4].node

\* C10: an update fired by expand() or collapse() has as many rows in its
\* payload, less the rows it replaces, as the height of its node has grown
\* by since the call.
C10_RowsMatchHeight ==
  \A i \in 1..Len(emitted) :
    (emitted[i].kind \in {"expand", "collapse"} /\ emitted[i].h0 > 0) =>
      Len(emitted[i].payload) - emitted[i].length = emitted[i].h1 - emitted[i].h0

\* No update is being applied and none was applied with the offset NaN.
Applied ==
  \A k \in 1..Len(eventQueue) :
    eventQueue[k].st \in {"queued", "done"} /\ ~eventQueue[k].nan

\* C11: after the updates applied so far, every sign id lineToSignId
\* associates with a line is a sign still placed in the buffer: the ids
\* removeRows unplaced are forgotten.
C11_ReleasedSignsForgotten ==
  Applied => \A l \in DOMAIN lineToSignId : lineToSignId[l] \in signs

\* C12: every node below the root whose expanded flag is set has a
\* collapseState in its data, retired nodes left aside.
C12_ExpandedOnlyIfExpandable ==
  \A n \in NodeIds \ {Root} :
    (isExpanded(nodes, n) /\ ~nodes[n].defunct) => expandable(nodes, n)

\* The nodes revealDocumentInternal visits from n along parents in the tree
\* as it is: n, then the first child with the nodeUri looked for, and so on
\* while there is one.
RECURSIVE RevealPath(_, _, _)
RevealPath(ns, n, parents) ==
  IF Len(parents) = 0 \/ ns[n].st # "ok" THEN <<n>>
  ELSE LET found == {i \in 1..Len(ns[n].kids) :
                       ns[ns[n].kids[i]].uri = parents[1]}
       IN IF found = {} THEN <<n>>
          ELSE <<n>> \o RevealPath(ns,
                 ns[n].kids[CHOOSE i \in found : \A j \in found : i <= j],
                 Tail(parents))

\* A reveal has just returned and no operation was started since.
Revealed ==
  /\ returned.kind = "reveal"
  /\ ~returned.rejected
  /\ returned.call = calls
  /\ ops = {}

\* C13: a reveal along a chain that is in the tree returns the node of the
\* last identity; every node above it on the chain is expanded, and the
\* node itself is not expanded unless it was before the call.
C13_RevealReturnsTarget ==
  Revealed =>
    LET path == RevealPath(nodes, Root, returned.chain)
        target == path[Len(path)]
    IN Len(path) = Len(returned.chain) + 1 =>
         /\ returned.result
         /\ returned.node = target
         /\ nodes[target].uri = returned.chain[Len(returned.chain)]
         /\ \A i \in 1..(Len(path) - 1) : isExpanded(nodes, path[i])
         /\ target \notin returned.wasOpen => ~isExpanded(nodes, target)

\* revealByParents(["A", "C"]) has returned C after it expanded A.
C13_Witness ==
  /\ Revealed
  /\ returned.result
  /\ returned.chain = <<"A", "C">>
  /\ nodes[returned.node].uri = "C"
  /\ \E n \in NodeIds \ returned.wasOpen :
       nodes[n].uri = "A" /\ isExpanded(nodes, n) /\ ~nodes[n].defunct

\* C14: a reveal along a chain with a step that is not among the children
\* of the node before it returns undefined, and the nodes it went through
\* are expanded.
C14_RevealMissingStep ==
  Revealed =>
    LET path == RevealPath(nodes, Root, returned.chain)
    IN Len(path) <= Len(returned.chain) =>
         /\ ~returned.result
         /\ returned.node = 0
         /\ \A i \in 1..Len(path) : isExpanded(nodes, path[i])

\* revealByParents(["A", "X"]) has returned undefined after it expanded A.
C14_Witness ==
  /\ Revealed
  /\ ~returned.result
  /\ returned.chain = <<"A", "X">>
  /\ \E n \in NodeIds \ returned.wasOpen :
       /\ nodes[n].uri = "A" /\ isExpanded(nodes, n) /\ ~nodes[n].defunct
       /\ n \in {nodes[Root].kids[i] : i \in 1..Len(nodes[Root].kids)}

\* The rows of the buffer that show the tree ns: its visible projection
\* without the hidden root.
DisplayOf(ns) == makeRows(Tail(collectVisibleNodes(ns, Root)))

\* Entry k of the queue is the update of a collapse() and nothing was
\* called or fired since: the updates before it are applied.
CollapseAlone(k) ==
  /\ k = Len(eventQueue)
  /\ emitted[k].kind = "collapse"
  /\ emitted[k].call = calls
  /\ ops = {} /\ marking = {}
  /\ ~eventQueue[k].nan
  /\ \A j \in 1..(k - 1) : eventQueue[j].st = "done" /\ ~eventQueue[j].nan

\* C15: the update of a collapse() of X replaces as many rows as X's
\* subtree had and carries X's row alone; applied to a buffer that shows
\* the tree before the collapse, removeRows takes out the rows of X and of
\* its descendants and insertRows puts X's row back, so that the rows
\* before and after them stay as they were, in their order.
C15_CollapseFrame ==
  [][\A k \in 1..Len(eventQueue) :
       (CollapseAlone(k) /\ eventQueue[k].st = "running") =>
         LET task == eventQueue[k]
             X == emitted[k].root.node
             before == [nodes EXCEPT ![X].expanded = TRUE]
             old == DisplayOf(before)
             h == height(before, X)
             o == findNodeOffset(nodes, makeView(nodes, X)).n - 1
             hole == SubSeq(old, 1, o) \o SubSeq(old, o + h + 1, Len(old))
         IN /\ task.ev.length = h
            /\ task.ev.payload = <<makeView(nodes, X)>>
            /\ task.offset = o
            /\ (task.pc = "remove" /\ eventQueue'[k].pc = "insert"
                  /\ buffer = old) =>
                 buffer' = hole
            /\ (task.pc = "insert" /\ eventQueue'[k].pc = "restore"
                  /\ buffer = hole) =>
                 /\ buffer' = DisplayOf(nodes)
                 /\ buffer' = SubSeq(old, 1, o) \o makeRows(<<makeView(nodes, X)>>)
                                \o SubSeq(old, o + h + 1, Len(old))
    ]_vars

\* The update of a collapse() of a node with a visible child is applied:
\* the buffer shows the tree without the child's row.
C15_Witness ==
  /\ Len(eventQueue) >= 2
  /\ CollapseAlone(Len(eventQueue))
  /\ eventQueue[Len(eventQueue)].st = "done"
  /\ eventQueue[Len(eventQueue)].ev.length >= 2
  /\ buffer = DisplayOf(nodes)
  /\ Len(buffer) + eventQueue[Len(eventQueue)].ev.length - 1
       = Len(DisplayOf([nodes EXCEPT
                          ![emitted[Len(emitted)].root.node].expanded = TRUE]))

\* No operation is in flight and every update fired was applied to its end,
\* with an offset that findNodeOffset found and no display call failing.
QueueDrained ==
  /\ Quiescent
  /\ fails = 0
  /\ \A k \in 1..Len(eventQueue) :
       eventQueue[k].st = "done" /\ ~eventQueue[k].nan

\* C16: whenever no operation is in flight and the queue is drained, the
\* rows of the buffer are the pre-order visible projection of the tree
\* below the hidden root.
C16_DisplayIsProjection ==
  QueueDrained => buffer = DisplayOf(nodes)

\* C17: an expand() or collapse() on a node whose stamp another operation
\* set between the operation's reading of the stamp and its final check
\* returns false and fires no update.
C17_TouchedOperationDiscarded ==
  /\ (returned.kind \in {"expand", "collapse"} /\ returned.touched)
       => ~returned.result
  /\ \A i \in 1..Len(emitted) :
       emitted[i].kind \in {"expand", "collapse"} => ~emitted[i].touched

\* A refreshSubtree has just completed and no operation was started since.
Refreshed ==
  /\ returned.kind = "refresh"
  /\ ~returned.rejected
  /\ returned.call = calls
  /\ ops = {}

\* C18: a refreshSubtree fires one update and no more; the update is no
\* focus event, it replaces as many rows as the height of the node was
\* when refreshSubtree was called, and once the call has completed the
\* update is anchored at the refreshed node and carries the visible nodes
\* of its subtree as it is then, in pre-order.
C18_RefreshEmitsOnce ==
  /\ \A i, j \in 1..Len(emitted) :
       (emitted[i].kind = "refresh" /\ emitted[j].kind = "refresh"
          /\ emitted[i].call = emitted[j].call) => i = j
  /\ \A i \in 1..Len(emitted) :
       emitted[i].kind = "refresh" =>
         /\ ~emitted[i].focusEvent
         /\ emitted[i].h0 >= 1
         /\ emitted[i].length = emitted[i].h0
         /\ Len(emitted[i].payload) = emitted[i].h1
         /\ emitted[i].payload[1] = emitted[i].root
  /\ Refreshed =>
       /\ Len(emitted) >= 1
       /\ LET update == emitted[Len(emitted)]
          IN /\ update.kind = "refresh"
             /\ update.call = returned.call
             /\ update.root = makeView(nodes, returned.node)
             /\ update.payload = collectVisibleNodes(nodes, returned.node)

\* A refreshSubtree of a node with visible descendants has completed and
\* its update carries another number of rows than it replaces.
C18_Witness ==
  /\ Refreshed
  /\ Len(emitted) >= 1
  /\ emitted[Len(emitted)].kind = "refresh"
  /\ emitted[Len(emitted)].length >= 2
  /\ Len(emitted[Len(emitted)].payload) # emitted[Len(emitted)].length

\* The nodes below n that n and its descendants hold as resolved children,
\* each with the nodeUris on the way from n to it.
RECURSIVE Descendants(_, _, _)
Descendants(ns, n, curPath) ==
  IF ns[n].st # "ok" THEN {}
  ELSE UNION {LET c == ns[n].kids[i]
                  path == Append(curPath, ns[c].uri)
              IN {[node |-> c, path |-> path]} \cup Descendants(ns, c, path) :
              i \in 1..Len(ns[n].kids)}

\* C19: when the reload of a refreshSubtree on an expanded node is over, a
\* node of the new subtree is expanded exactly when its path of nodeUris
\* from the refreshed node is one of the open paths found before the
\* reload, and no node of the new subtree is retired; when the children
\* are dropped, every one of them is retired.
C19_OpenPathsReplayed ==
  [][\A op \in ops :
       (op.kind = "refresh" /\ isExpanded(nodes, op.node)) =>
         /\ (op.pc = "open" /\ op \notin ops') =>
              /\ \A i \in 1..Len(nodes[op.node].kids) :
                   nodes'[nodes[op.node].kids[i]].defunct
              /\ nodes'[op.node].st # "ok"
         /\ (op.pc = "reload"
               /\ [op EXCEPT !.pc = "collect", !.reload = {}] \in ops') =>
              \A d \in Descendants(nodes', op.node, << >>) :
                /\ isExpanded(nodes', d.node) <=>
                     \E i \in 1..Len(op.openNodes) : op.openNodes[i] = d.path
                /\ ~nodes'[d.node].defunct
    ]_vars

\* A refreshSubtree of the root has completed: a child was expanded before
\* and is expanded again, its sibling is collapsed, and the two nodes are
\* new ones.
C19_Witness ==
  /\ Refreshed
  /\ returned.node = Root
  /\ nodes[Root].st = "ok"
  /\ Len(nodes[Root].kids) = 2
  /\ isExpanded(nodes, nodes[Root].kids[1])
  /\ ~isExpanded(nodes, nodes[Root].kids[2])
  /\ nodes[Root].kids[1] > 3
  /\ nodes[2].defunct /\ nodes[3].defunct

\* The nodes that were once resolved as children of n or of a node below
\* it and are held no more by the tree under the root.
Replaced ==
  {m \in NodeIds :
     m \notin {d.node : d \in Descendants(nodes, Root, << >>)} \cup {Root}}

\* C20: once a refreshSubtree on an expanded node has fired its update,
\* every node of the subtree it replaced is retired.
C20_ReplacedSubtreeRetired ==
  (Refreshed /\ isExpanded(nodes, returned.node)) =>
    \A m \in Replaced : nodes[m].defunct

\* Some refreshSubtree on n executes `this.children = undefined` in this
\* step.
Discards(n) ==
  \E op \in ops :
    op.kind = "refresh" /\ op.node = n /\ op.pc = "open" /\ op \notin ops'

\* C21: a node that holds a children promise keeps it until a
\* refreshSubtree of that node drops it: the load is not requested again,
\* and once resolved the children are the same Node objects for every
\* reader.
C21_ChildrenCacheStable ==
  [][\A n \in NodeIds :
       (nodes[n].st # "undef" /\ ~Discards(n)) =>
         /\ nodes'[n].st \in {"pending", "ok"}
         /\ nodes[n].st = "ok" =>
              (nodes'[n].st = "ok" /\ nodes'[n].kids = nodes[n].kids)
    ]_vars

\* Two operations in flight on one node, whose children are resolved.
C21_Witness ==
  \E o1, o2 \in ops :
    /\ o1.call # o2.call
    /\ o1.node = o2.node
    /\ o1.kind \in {"expand", "collapse"}
    /\ o2.kind \in {"expand", "collapse"}
    /\ nodes[o1.node].st = "ok"
    /\ Len(nodes[o1.node].kids) > 0

\* Entry k of the queue is the update of a refreshSubtree of the root,
\* nothing was called or fired since, the updates before it are applied and
\* no display call has failed.
RootAlone(k) ==
  /\ k = Len(eventQueue)
  /\ emitted[k].kind = "refresh"
  /\ emitted[k].root.uri = ROOT
  /\ emitted[k].call = calls
  /\ ops = {} /\ marking = {}
  /\ fails = 0
  /\ \A j \in 1..(k - 1) : eventQueue[j].st = "done" /\ ~eventQueue[j].nan

\* C22: an update anchored at the hidden root is applied without its first
\* row: once its callback has ended, the rows of the buffer from the top
\* are the rows of the payload after the root's, and no row shows the root.
C22_RootUpdateApplied ==
  \A k \in 1..Len(eventQueue) :
    (RootAlone(k) /\ eventQueue[k].st \notin {"queued", "running"}) =>
      LET rows == makeRows(Tail(emitted[k].payload))
      IN /\ eventQueue[k].st = "done"
         /\ eventQueue[k].ev.length = emitted[k].length - 1
         /\ Len(buffer) >= Len(rows)
         /\ SubSeq(buffer, 1, Len(rows)) = rows
         /\ \A i \in 1..Len(buffer) : buffer[i].label # ROOT

FocusEvents(c) ==
  {i \in 1..Len(emitted) : emitted[i].focusEvent /\ emitted[i].call = c}

\* C24: a focus event is fired by revealDocument only, with length 1 and
\* an empty payload, after every update the expansions of the same call
\* fired; a revealDocument in flight has fired none, one that returned a
\* node has fired one, anchored at that node, and one that returned
\* undefined has fired none.
C24_RevealFiresOneFocusEvent ==
  /\ \A i \in 1..Len(emitted) :
       emitted[i].focusEvent =>
         /\ emitted[i].kind = "reveal"
         /\ emitted[i].length = 1
         /\ emitted[i].payload = << >>
         /\ \A j \in 1..Len(emitted) :
              (emitted[j].call = emitted[i].call /\ j # i) =>
                (j < i /\ emitted[j].kind = "expand")
  /\ \A op \in ops : FocusEvents(op.call) = {}
  /\ returned.kind = "reveal" =>
       IF returned.result
       THEN /\ Cardinality(FocusEvents(returned.call)) = 1
            /\ \A i \in FocusEvents(returned.call) :
                 /\ emitted[i].root.node = returned.node
                 /\ emitted[i].root.uri = returned.chain[Len(returned.chain)]
       ELSE FocusEvents(returned.call) = {}

\* A revealDocument has returned a node after an expansion of the same
\* call fired its update, the focus event behind it.
C24_Witness ==
  /\ returned.kind = "reveal"
  /\ returned.result
  /\ \E i, j \in 1..Len(emitted) :
       /\ j < i
       /\ emitted[i].focusEvent /\ emitted[i].call = returned.call
       /\ emitted[j].kind = "expand" /\ emitted[j].call = returned.call

\* The nodes of the visible projection whose nodeUri is u, by their place
\* in pre-order.
Matches(u) ==
  LET visible == collectVisibleNodes(nodes, Root)
  IN {i \in 1..Len(visible) : visible[i].uri = u}

\* C25: a notification without a node calls refreshSubtree on the root at
\* once; a notification for a nodeUri first searches, and the search ends
\* either in refreshSubtree on the first node of the visible projection
\* with that nodeUri, or, when there is none, in nothing: no node changes
\* and no update is fired.
C25_PushRefreshesFirstMatch ==
  [][/\ \A o2 \in ops' :
          (o2.kind = "refresh" /\ o2.call > calls) =>
            IF o2.uri = ROOT THEN o2.node = Root /\ o2.pc = "height"
            ELSE o2.pc = "find"
     /\ \A op \in ops :
          (op.kind = "refresh" /\ op.pc = "find" /\ op \notin ops'
             /\ Settled(nodes, Root)) =>
            IF Matches(op.uri) = {}
            THEN /\ \A o2 \in ops' : o2.call # op.call
                 /\ nodes' = nodes
                 /\ emitted' = emitted
            ELSE LET visible == collectVisibleNodes(nodes, Root)
                     first == CHOOSE i \in Matches(op.uri) :
                                \A j \in Matches(op.uri) : i <= j
                 IN \E o2 \in ops' :
                      /\ o2.call = op.call
                      /\ o2.kind = "refresh" /\ o2.pc = "height"
                      /\ o2.node = visible[first].node
    ]_vars

\* refreshSubtree runs on a node of the second level of the visible
\* projection, which a notification named.
C25_Witness ==
  \E op \in ops :
    /\ op.kind = "refresh" /\ op.pc = "height"
    /\ op.uri = "C"
    /\ nodes[op.node].uri = "C"
    /\ ~nodes[op.node].defunct
    /\ Settled(nodes, Root)
    /\ \E i \in Matches("C") : collectVisibleNodes(nodes, Root)[i].node = op.node

\* C26: with no operation in flight, findNodeWithOffset answers undefined
\* for every offset from the height of the root on.
C26_OffsetBeyondHeight ==
  Quiescent =>
    \A offset \in height(nodes, Root)..(height(nodes, Root) + MaxLine) :
      findNodeWithOffset(nodes, offset) = 0

\* The nodeUris findNodeOffset is asked for: those of the server's
\* versions, the root's and one no node has.
TargetUris == {ROOT, "A", "B", "C", "X"}

\* C27: when no children promise of the visible projection is pending,
\* findNodeOffset answers, for a view with nodeUri u, the number of rows of
\* the visible projection before the first one with that nodeUri (the root
\* is row 0), and undefined exactly when no row has it.
C27_OffsetIsPreOrderIndex ==
  Settled(nodes, Root) =>
    \A u \in TargetUris :
      LET r == findNodeOffset(nodes, [NoView EXCEPT !.uri = u])
      IN /\ ~r.blocked
         /\ r.found <=> Matches(u) # {}
         /\ r.found => \A i \in Matches(u) : r.n + 1 <= i
         /\ r.found => r.n + 1 \in Matches(u)

\* The visible projection is root, A, C, B: B is found at row 3 and X is
\* not found.
C27_Witness ==
  /\ Settled(nodes, Root)
  /\ Len(collectVisibleNodes(nodes, Root)) = 4
  /\ findNodeOffset(nodes, [NoView EXCEPT !.uri = "B"]).found
  /\ findNodeOffset(nodes, [NoView EXCEPT !.uri = "B"]).n = 3
  /\ ~findNodeOffset(nodes, [NoView EXCEPT !.uri = "X"]).found

\* C28: the step in which window.setCursor of an update that is no focus
\* event has answered, no display call failing, leaves the cursor on the
\* line that was read before the rows were removed and inserted.
C28_CursorRestored ==
  [][\A k \in 1..Len(eventQueue) :
       (/\ ~eventQueue[k].ev.focusEvent
        /\ eventQueue[k].st = "running" /\ eventQueue[k].pc = "restore"
        /\ eventQueue'[k] # eventQueue[k]
        /\ fails' = fails) =>
         /\ cursor' = eventQueue[k].curLine
         /\ ~eventQueue'[k].err
    ]_vars

\* The updates fired for node n by call c.
FiredFor(c, n) ==
  {i \in 1..Len(emitted) : emitted[i].call = c /\ emitted[i].root.node = n}

\* C29: an expand() whose await of the children was rejected returns no
\* true and has fired no update, and none is fired by an expand() in
\* flight on a node whose children promise is rejected; the rejected
\* promise stays in the node, no load is requested for it again.
C29_LoadFailurePropagates ==
  [][/\ (returned'.kind = "expand" /\ returned'.rejected) =>
          /\ ~returned'.result
          /\ FiredFor(returned'.call, returned'.node) = {}
     /\ \A op \in ops :
          (op.kind = "expand" /\ nodes[op.node].st = "failed") =>
            /\ FiredFor(op.call, op.node) = {}
            /\ emitted' = emitted
     /\ \A n \in NodeIds :
          nodes[n].st = "failed" => nodes'[n].st = "failed"
    ]_vars

\* An expand() was rejected by the failure of the load it awaited, and a
\* second expand() of the same node was rejected by the promise the node
\* kept.
C29_Witness ==
  /\ returned.kind = "expand" /\ returned.rejected
  /\ returned.call >= 2
  /\ nodes[returned.node].st = "failed"
  /\ isExpanded(nodes, returned.node)
  /\ ops = {}

\* The callback of entry k is inside modifyBuffer, between the two pairs of
\* setOption calls.
Applying(k) ==
  /\ eventQueue[k].st = "running"
  /\ eventQueue[k].pc \in {"snapshot", "remove", "insert", "restore", "lock"}

\* A setOption call of modifyBuffer was itself refused by the display.
OptionRefused(k) ==
  /\ eventQueue[k].st = "failed"
  /\ eventQueue[k].pc \in {"unlock", "lock"}

\* C30: the buffer is modifiable, or not read-only, only while the callback
\* of an update is inside modifyBuffer: once the application of an update
\* has finished, with its rows removed and inserted or with a failure among
\* these calls, 'modifiable' is off and 'readonly' is on again (unless the
\* display refused a setOption call itself).
C30_BufferLockedAfterUpdate ==
  (modifiable \/ ~readonly) =>
    \E k \in 1..Len(eventQueue) : Applying(k) \/ OptionRefused(k)

\* An update whose row removal or insertion failed has finished and the
\* buffer is locked again.
C30_Witness ==
  \E k \in 1..Len(eventQueue) :
    /\ eventQueue[k].st = "failed"
    /\ eventQueue[k].pc = "end"
    /\ eventQueue[k].err
    /\ eventQueue[k].made \cap {"remove", "insert"} # {}
    /\ ~modifiable
    /\ readonly

\* The nodes of view v among the nodes received, in the order received.
ReceivedOf(v) == SelectSeq(received, LAMBDA node : node.viewId = v)

\* The registrations made for view v.
ProvidersOf(v) == {i \in 1..Len(providers) : providers[i].viewId = v}

\* The nodes fired on emitter e, in the order fired.
StreamOf(e) ==
  LET fired == SelectSeq(updatedNodes, LAMBDA u : u.emitter = e)
  IN [i \in 1..Len(fired) |-> fired[i].node]

\* C31: for each viewId, the first treeViewDidChange node received
\* registers exactly one tree provider, whose TreeModel the manager holds,
\* and is not forwarded; every later node of that view, a later node of
\* the same notification too, is forwarded in order to the update stream
\* of that provider and registers no second provider; nothing is
\* registered for a view no node was received for.
C31_FirstNodeRegistersOnce ==
  \A v \in {TreeViewId} \cup MessageViews :
    IF ReceivedOf(v) = << >>
    THEN ProvidersOf(v) = {} /\ v \notin DOMAIN treeModels
    ELSE /\ Cardinality(ProvidersOf(v)) = 1
         /\ LET provider == providers[CHOOSE i \in ProvidersOf(v) : TRUE]
            IN /\ StreamOf(provider.updatedNodes) = Tail(ReceivedOf(v))
               /\ v \in DOMAIN treeModels
               /\ treeModels[v].updatedNodes = provider.updatedNodes
               /\ \A i \in 1..Len(updatedNodes) :
                    updatedNodes[i].node.viewId = v =>
                      updatedNodes[i].emitter = provider.updatedNodes

\* The one notification received about a view carried two of its nodes:
\* the first registered the provider, the second was forwarded to it.
C31_Witness ==
  \E v \in MessageViews :
    /\ messages = 2
    /\ Len(ReceivedOf(v)) = 2
    /\ Cardinality(ProvidersOf(v)) = 1
    /\ StreamOf(viewUpdaters[v]) = <<received[3]>>
====
